---- MODULE Spec2Model ----
(***************************************************************************)
(* Factory floor designer: the zustand design store (designStore.ts), the  *)
(* placement overlay (ObjectPlacement.tsx), the page component that owns   *)
(* the placement mode (FactoryDesigner.tsx), the object creation form      *)
(* (CreateObjectModal.tsx), the import dialog (ImportModal.tsx) and the    *)
(* camera of the canvas (Canvas.tsx).                                      *)
(*                                                                         *)
(* Ids are the strings `object-<Date.now()>-<random>` in the source; they  *)
(* are modelled as fresh naturals drawn from the counter nextId, the two   *)
(* default library entries holding ids 1 and 2, and null being 0.          *)
(*                                                                         *)
(* Store operations are operators from a store record to a store record,   *)
(* so that importFloorPlanFromJSON composes them as the source does.       *)
(* Spec drives the store through the library, the floor plan list and the  *)
(* placement overlay; SpecImport drives it through the floor plan          *)
(* operations and the JSON import; SpecLibrary and SpecStore drive the     *)
(* remaining store operations, SpecForm the creation form, SpecModal the   *)
(* import dialog, SpecCanvas the camera through its buttons and frames     *)
(* and SpecInput the camera through its mouse and wheel listeners.         *)
(***************************************************************************)
EXTENDS Integers, Sequences, FiniteSets, TLC

\* ------------------------------------------------------------------ bounds
MaxLib == 3
MaxPlans == 2
MaxPlaced == 2
MaxId == 4
MaxEntries == 2
MaxImportId == 6
MaxPanSteps == 2
MaxPanPixels == 20
MaxPanDistance == 200
MaxNotches == 1
MaxZoomRatio == 2

\* ------------------------------------------------------- program constants
Null == 0
DefaultMillId == 1
DefaultWallId == 2
GridSize == 5000
GridCenter == 2500
SnapPixels == 20
DefaultColor == "#aaaaaa"
\* CreateObjectModal: the default maxValue of handleDimensionChange, the max
\* attribute of the Height (Z) input, and the initial value of a dimension
MaxDimension == 500
MaxHeight == 100
InitialDimension == 2
\* Canvas: MIN_ZOOM, MAX_ZOOM and DEFAULT_ZOOM, in hundredths (the unit of
\* every zoom value below, so that the thresholds of GRID_LEVELS are whole)
MIN_ZOOM == 10
MAX_ZOOM == 2000
DEFAULT_ZOOM == 100
\* Canvas: DIAGONAL_GRID_SIZE / 2 = 5000 * sqrt(2) / 2 = 3535.5, rounded down
HalfDiagonal == 3535
\* Canvas: the size of the mount element (clientWidth, clientHeight), in pixels
MountWidth == 1000
MountHeight == 500
\* Canvas: the accumulated deltaY for which Math.pow(0.95, deltaY *
\* ZOOM_SENSITIVITY) is one half: 0.95 ^ 13.513 = 0.5
WheelNotch == 13513
\* Canvas: (TOTAL_GRID_SIZE / 2) * cos(ISO_ANGLE) = 1767.77, rounded; the sine
\* of the 45 degree angle gives the same length
IsoDist == 1768

VARIABLES
  objectLibrary,      \* designStore: FactoryObject[]
  floorPlans,         \* designStore: FloorPlan[]
  activeFloorPlanId,  \* designStore: string | null
  nextId,             \* source of fresh ids (Date.now() + Math.random())
  placingObjectId,    \* FactoryDesigner: useState<string | null>
  position,           \* ObjectPlacement: useState({x, y, z})
  rotation,           \* ObjectPlacement: useState(0)
  isValidPlacement,   \* ObjectPlacement: useState(true)
  showCreateModal,    \* ObjectLibrary: useState(false)
  formName,           \* CreateObjectModal: useState('New Object') (`name`)
  xDimension,         \* CreateObjectModal: useState(2)
  yDimension,         \* CreateObjectModal: useState(2)
  zDimension,         \* CreateObjectModal: useState(2)
  formColor,          \* CreateObjectModal: useState('#aaaaaa') (`color`)
  importModalOpen,    \* FactoryDesigner: useState(false)
  fileName,           \* ImportModal: useState('')
  error,              \* ImportModal: useState('')
  isIsometric,        \* Canvas: useState(true)
  camera,             \* Canvas: cameraRef.current (position, zoom)
  isometricViewState, \* Canvas: isometricViewStateRef.current
  birdsEyeViewState,  \* Canvas: birdsEyeViewStateRef.current
  viewHeight,         \* Canvas: cameraRef.current.top, set by adjustCameraFrustum
  currentGridLevel,   \* Canvas: currentGridLevelRef.current, the level of gridRef.current
  lastZoomLevelForGrid, \* Canvas: lastZoomLevelForGridRef.current
  rebuilds,           \* history: grids built by the handler that ran last
  isDragging,         \* Canvas: isDraggingRef.current
  lastMousePosition,  \* Canvas: lastMousePositionRef.current
  panDelta,           \* Canvas: panDeltaRef.current
  zoomDelta,          \* Canvas: zoomDeltaRef.current
  mousePosForZoom,    \* Canvas: mousePosForZoomRef.current
  movedSinceFrame,    \* history: the drag movement taken in since the last frame
  panFrames,          \* history: the frames so far that applied a drag
  last                \* history: the handler that ran last

storeVars == <<objectLibrary, floorPlans, activeFloorPlanId>>
placementVars == <<placingObjectId, position, rotation, isValidPlacement>>
formVars == <<showCreateModal, formName, xDimension, yDimension, zDimension, formColor>>
modalVars == <<importModalOpen, fileName, error>>
inputVars == <<isDragging, lastMousePosition, panDelta, zoomDelta, mousePosForZoom,
               movedSinceFrame, panFrames>>
canvasVars == <<isIsometric, camera, isometricViewState, birdsEyeViewState,
                viewHeight, currentGridLevel, lastZoomLevelForGrid, rebuilds,
                inputVars>>
vars == <<objectLibrary, floorPlans, activeFloorPlanId, nextId,
          placingObjectId, position, rotation, isValidPlacement,
          showCreateModal, formName, xDimension, yDimension, zDimension, formColor,
          importModalOpen, fileName, error,
          isIsometric, camera, isometricViewState, birdsEyeViewState,
          viewHeight, currentGridLevel, lastZoomLevelForGrid, rebuilds,
          isDragging, lastMousePosition, panDelta, zoomDelta, mousePosForZoom,
          movedSinceFrame, panFrames, last>>

\* ------------------------------------------------------------ data shapes
Dim(x, y, z) == [x |-> x, y |-> y, z |-> z]
Pos(x, y, z) == [x |-> x, y |-> y, z |-> z]

\* an element of the `objects` array of a JSON document; the empty name, the
\* dimensions NoDimensions and the empty color stand for an absent field
Entry(name, dimensions, color, hasPosition, pos, rot) ==
  [name |-> name, dimensions |-> dimensions, color |-> color,
   hasPosition |-> hasPosition, position |-> pos, rotation |-> rot]
\* a JSON text: whether JSON.parse accepts it, and the fields of its value
Doc(parses, name, isList, objects) ==
  [parses |-> parses, name |-> name, isList |-> isList, objects |-> objects]

\* `undefined` result of Array.prototype.find
NoObject == [id |-> Null, name |-> "", dimensions |-> Dim(0, 0, 0), color |-> ""]

InitialLibrary ==
  << [id |-> DefaultMillId, name |-> "Mill", dimensions |-> Dim(4, 4, 8), color |-> "#aaaaaa"],
     [id |-> DefaultWallId, name |-> "Wall", dimensions |-> Dim(2, 1, 1), color |-> "#9b9b9b"] >>

St == [objectLibrary |-> objectLibrary, floorPlans |-> floorPlans,
       activeFloorPlanId |-> activeFloorPlanId, nextId |-> nextId]

\* ------------------------------------------------------------ Array.find
\* objectLibrary.find(obj => obj.id === id)
findObject(lib, id) ==
  IF \E i \in 1..Len(lib) : lib[i].id = id
  THEN lib[CHOOSE i \in 1..Len(lib) :
             lib[i].id = id /\ \A j \in 1..(i - 1) : lib[j].id # id]
  ELSE NoObject

\* floorPlans.find(plan => plan.id === id); objects <<>> and id Null when absent
NoPlan == [id |-> Null, name |-> "", objects |-> <<>>]
findPlan(plans, id) ==
  IF \E i \in 1..Len(plans) : plans[i].id = id
  THEN plans[CHOOSE i \in 1..Len(plans) :
               plans[i].id = id /\ \A j \in 1..(i - 1) : plans[j].id # id]
  ELSE NoPlan

\* ------------------------------------------------------- designStore.ts
addObject(s, object) ==
  [s EXCEPT !.objectLibrary = Append(@, [id |-> s.nextId, name |-> object.name,
                                         dimensions |-> object.dimensions,
                                         color |-> object.color]),
            !.nextId = @ + 1]

deleteObject(s, id) ==
  LET Keep(obj) == obj.id # id
  IN [s EXCEPT !.objectLibrary = SelectSeq(@, Keep)]

addFloorPlan(s, name) ==
  [s EXCEPT !.floorPlans = Append(@, [id |-> s.nextId, name |-> name, objects |-> <<>>]),
            !.activeFloorPlanId = s.nextId,
            !.nextId = @ + 1]

\* faulty variant of deleteFloorPlan: the active id is left alone
deleteFloorPlanNoPromote(s, id) ==
  LET Keep(plan) == plan.id # id
  IN [s EXCEPT !.floorPlans = SelectSeq(@, Keep)]

\* faulty variant of deleteFloorPlan: the last remaining plan is promoted
deleteFloorPlanPromoteLast(s, id) ==
  LET Keep(plan) == plan.id # id
      newPlans == SelectSeq(s.floorPlans, Keep)
  IN [s EXCEPT !.floorPlans = newPlans,
               !.activeFloorPlanId =
                 IF s.activeFloorPlanId = id
                 THEN (IF Len(newPlans) > 0 THEN newPlans[Len(newPlans)].id ELSE Null)
                 ELSE @]

deleteFloorPlan(s, id) ==
  LET Keep(plan) == plan.id # id
      newPlans == SelectSeq(s.floorPlans, Keep)
  IN [s EXCEPT !.floorPlans = newPlans,
               !.activeFloorPlanId =
                 IF s.activeFloorPlanId = id
                 THEN (IF Len(newPlans) > 0 THEN newPlans[1].id ELSE Null)
                 ELSE @]

setActiveFloorPlan(s, id) == [s EXCEPT !.activeFloorPlanId = id]

\* { ...obj, ...updates }: updates is a record holding some of the fields
spread(obj, updates) ==
  [f \in DOMAIN obj |-> IF f \in DOMAIN updates THEN updates[f] ELSE obj[f]]

updateObject(s, id, updates) ==
  [s EXCEPT !.objectLibrary =
     [i \in 1..Len(@) |-> IF @[i].id = id THEN spread(@[i], updates) ELSE @[i]]]

duplicateObject(s, id) ==
  IF findObject(s.objectLibrary, id).id # Null
  THEN [s EXCEPT !.objectLibrary =
          Append(@, [findObject(s.objectLibrary, id) EXCEPT
                       !.id = s.nextId, !.name = @ \o " (Copy)"]),
                 !.nextId = @ + 1]
  ELSE s

updateFloorPlan(s, id, updates) ==
  [s EXCEPT !.floorPlans =
     [i \in 1..Len(@) |-> IF @[i].id = id THEN spread(@[i], updates) ELSE @[i]]]

\* faulty variant of importObject: the placement goes to the first plan,
\* not to the active one
importObjectFirstPlan(s, objectId, pos, rot) ==
  IF s.activeFloorPlanId = Null THEN s
  ELSE [s EXCEPT !.floorPlans =
          [i \in 1..Len(@) |->
             IF i = 1
             THEN [@[i] EXCEPT !.objects =
                     Append(@, [objectId |-> objectId, position |-> pos, rotation |-> rot])]
             ELSE @[i]]]

importObject(s, objectId, pos, rot) ==
  IF s.activeFloorPlanId = Null THEN s
  ELSE [s EXCEPT !.floorPlans =
          [i \in 1..Len(@) |->
             IF @[i].id = s.activeFloorPlanId
             THEN [@[i] EXCEPT !.objects =
                     Append(@, [objectId |-> objectId, position |-> pos, rotation |-> rot])]
             ELSE @[i]]]

\* placedObjectIndex counts from 0
removeObjectFromFloorPlan(s, floorPlanId, placedObjectIndex) ==
  LET without(objects) ==
        [k \in 1..(Len(objects) - (IF placedObjectIndex + 1 \in 1..Len(objects) THEN 1 ELSE 0)) |->
           IF k < placedObjectIndex + 1 THEN objects[k] ELSE objects[k + 1]]
  IN [s EXCEPT !.floorPlans =
        [i \in 1..Len(@) |->
           IF @[i].id = floorPlanId
           THEN [@[i] EXCEPT !.objects = without(@)]
           ELSE @[i]]]

\* result of the find callback of importFloorPlanFromJSON (name and x, y, z
\* compared with ===, left to right, && short-circuiting): reading .x of an
\* undefined `dimensions` throws a TypeError
NoDimensions == Dim(-1, -1, -1)
NameHit(libObj, obj) ==
  libObj.name = obj.name
    /\ (libObj.dimensions = NoDimensions \/ obj.dimensions = NoDimensions
          \/ libObj.dimensions = obj.dimensions)
matchLibrary(lib, obj) ==
  IF \E i \in 1..Len(lib) : NameHit(lib[i], obj)
  THEN LET i == CHOOSE k \in 1..Len(lib) :
                  NameHit(lib[k], obj) /\ \A j \in 1..(k - 1) : ~NameHit(lib[j], obj)
       IN IF lib[i].dimensions = NoDimensions \/ obj.dimensions = NoDimensions
          THEN [kind |-> "throw", id |-> Null]
          ELSE [kind |-> "found", id |-> lib[i].id]
  ELSE [kind |-> "none", id |-> Null]

\* obj.rotation || 0 and obj.color || '#aaaaaa'
rotationOrZero(obj) == obj.rotation
colorOrDefault(obj) == IF obj.color = "" THEN DefaultColor ELSE obj.color

\* faulty variant of processEntry: an entry is registered without looking
\* for an existing one
processEntryAlwaysAdds(s, obj) ==
  LET added == addObject(s, [name |-> obj.name, dimensions |-> obj.dimensions,
                             color |-> colorOrDefault(obj)])
      newObject == matchLibrary(added.objectLibrary, obj)
  IN IF newObject.kind = "throw" THEN [s |-> added, threw |-> TRUE]
     ELSE [s |-> IF obj.hasPosition
                 THEN importObject(added, newObject.id, obj.position, rotationOrZero(obj))
                 ELSE added,
           threw |-> FALSE]

\* body of data.objects.forEach; threw = a TypeError left the callback
processEntry(s, obj) ==
  LET existingObject == matchLibrary(s.objectLibrary, obj)
      added == addObject(s, [name |-> obj.name, dimensions |-> obj.dimensions,
                             color |-> colorOrDefault(obj)])
      newObject == matchLibrary(added.objectLibrary, obj)
      place(t, objectId) ==
        IF objectId # Null /\ obj.hasPosition
        THEN importObject(t, objectId, obj.position, rotationOrZero(obj))
        ELSE t
  IN IF existingObject.kind = "throw" THEN [s |-> s, threw |-> TRUE]
     ELSE IF existingObject.kind = "found"
          THEN [s |-> place(s, existingObject.id), threw |-> FALSE]
     ELSE IF newObject.kind = "throw" THEN [s |-> added, threw |-> TRUE]
     ELSE [s |-> place(added, newObject.id), threw |-> FALSE]

RECURSIVE forEachEntry(_, _)
forEachEntry(s, objects) ==
  IF objects = <<>> THEN [s |-> s, threw |-> FALSE]
  ELSE LET r == processEntry(s, Head(objects))
       IN IF r.threw THEN r ELSE forEachEntry(r.s, Tail(objects))

\* data = JSON.parse(jsonData); parses = FALSE when JSON.parse throws
importFloorPlanFromJSON(s, data) ==
  IF ~data.parses THEN [s |-> s, threw |-> TRUE]
  ELSE IF data.name = "" \/ ~data.isList THEN [s |-> s, threw |-> TRUE]
  ELSE forEachEntry(addFloorPlan(s, data.name), data.objects)

\* JSON.stringify drops the fields of an entry that are undefined: spreading
\* the undefined objectDetails of an orphaned PlacedObject leaves position and
\* rotation only.  The id written with each entry is never read back.
exportedEntry(s, placedObj) ==
  LET objectDetails == findObject(s.objectLibrary, placedObj.objectId)
  IN IF objectDetails.id # Null
     THEN Entry(objectDetails.name, objectDetails.dimensions, objectDetails.color,
                TRUE, placedObj.position, placedObj.rotation)
     ELSE Entry("", NoDimensions, "", TRUE, placedObj.position, placedObj.rotation)

\* the text returned; '' (which JSON.parse rejects) when the plan is missing
exportFloorPlan(s, id) ==
  LET floorPlan == findPlan(s.floorPlans, id)
  IN IF floorPlan.id = Null THEN Doc(FALSE, "", FALSE, <<>>)
     ELSE Doc(TRUE, floorPlan.name, TRUE,
              [i \in 1..Len(floorPlan.objects) |-> exportedEntry(s, floorPlan.objects[i])])

\* ------------------------------------------------- ObjectPlacement.tsx
activeFloorPlan ==
  IF activeFloorPlanId # Null THEN findPlan(floorPlans, activeFloorPlanId) ELSE NoPlan

\* faulty variant of object: the lookup falls back to the first library entry
objectOrFirst ==
  IF findObject(objectLibrary, placingObjectId).id # Null \/ objectLibrary = <<>>
  THEN findObject(objectLibrary, placingObjectId)
  ELSE objectLibrary[1]

object == findObject(objectLibrary, placingObjectId)

\* the overlay box: dimensions.x wide and dimensions.y deep, turned about its
\* centre by `rotation` degrees, so the two extents swap at 90 and 270
effectiveWidth(obj, rot) ==
  IF rot \in {90, 270} THEN obj.dimensions.y ELSE obj.dimensions.x
effectiveDepth(obj, rot) ==
  IF rot \in {90, 270} THEN obj.dimensions.x ELSE obj.dimensions.y

\* the component returns null, so no button is on screen, without the object
Rendered == placingObjectId # Null /\ object.id # Null

snap(client) == (client \div SnapPixels) * SnapPixels

\* ground rectangle of an object at a position: x and z are the ground axes
Footprint(obj, pos, rot) ==
  [x0 |-> pos.x, x1 |-> pos.x + effectiveWidth(obj, rot),
   z0 |-> pos.z, z1 |-> pos.z + effectiveDepth(obj, rot)]
SharesArea(A, B) == A.x0 < B.x1 /\ B.x0 < A.x1 /\ A.z0 < B.z1 /\ B.z0 < A.z1
Touches(A, B) == A.x0 <= B.x1 /\ B.x0 <= A.x1 /\ A.z0 <= B.z1 /\ B.z0 <= A.z1

\* a placed object whose library entry exists and has dimensions
Resolved(lib, placed) ==
  /\ findObject(lib, placed.objectId).id # Null
  /\ findObject(lib, placed.objectId).dimensions # NoDimensions
PlacedFootprint(lib, placed) ==
  Footprint(findObject(lib, placed.objectId), placed.position, placed.rotation)

\* faulty variant of checkCollision: a test that also rejects footprints
\* that only touch
checkCollisionTouching(x, y, z, obj, rot) ==
  IF activeFloorPlan.id = Null \/ obj.id = Null THEN FALSE
  ELSE \E i \in 1..Len(activeFloorPlan.objects) :
         /\ Resolved(objectLibrary, activeFloorPlan.objects[i])
         /\ Touches(Footprint(obj, Pos(x, y, z), rot),
                    PlacedFootprint(objectLibrary, activeFloorPlan.objects[i]))

checkCollision(x, y, z, obj, rot) ==
  IF activeFloorPlan.id = Null \/ obj.id = Null THEN FALSE
  ELSE FALSE

\* faulty variant of handleRotate: the wrong modulus
handleRotateMod270(prev) == (prev + 90) % 270

handleRotate(prev) == (prev + 90) % 360

\* the condition under which handleComplete calls onComplete
handleCompleteCalls == isValidPlacement /\ object.id # Null

\* disabled={!isValidPlacement} of the Confirm Placement button
ConfirmDisabled == ~isValidPlacement

\* ---------------------------------------------------------- Canvas.tsx
Vec(x, y, z) == [x |-> x, y |-> y, z |-> z]

calculateIsometricPosition(targetX, targetY) ==
  Vec(targetX - IsoDist, targetY - IsoDist, IsoDist)

\* initialPosition of the camera setup effect and newPosition of handleRecenter
initialPosition(isometricView) ==
  IF isometricView THEN calculateIsometricPosition(GridCenter, GridCenter)
  ELSE Vec(GridCenter, GridCenter, GridCenter)

\* the state of the Canvas component
Cv == [isIsometric |-> isIsometric, camera |-> camera,
       isometricViewState |-> isometricViewState,
       birdsEyeViewState |-> birdsEyeViewState,
       viewHeight |-> viewHeight, currentGridLevel |-> currentGridLevel,
       lastZoomLevelForGrid |-> lastZoomLevelForGrid, rebuilds |-> rebuilds]

\* GRID_LEVELS, the zoom thresholds in hundredths
GridLevel(zoom, interval, subdivisions) ==
  [zoom |-> zoom, interval |-> interval, subdivisions |-> subdivisions]

GRID_LEVELS ==
  << GridLevel(15, 1000, 2), GridLevel(30, 500, 5), GridLevel(60, 250, 5),
     GridLevel(120, 100, 5), GridLevel(240, 50, 5), GridLevel(480, 20, 2),
     GridLevel(960, 10, 2), GridLevel(1400, 5, 5), GridLevel(1800, 1, 1) >>

\* currentGridLevelRef.current = null
NoGridLevel == GridLevel(0, 0, 0)

\* the loop run from the first level upwards: the first level whose
\* threshold the zoom has reached
getCurrentGridLevelFirstMatch(zoom) ==
  LET reached == { i \in 1..Len(GRID_LEVELS) : zoom >= GRID_LEVELS[i].zoom }
  IN IF reached = {} THEN GRID_LEVELS[1]
     ELSE GRID_LEVELS[CHOOSE i \in reached : \A j \in reached : i <= j]

\* for (let i = GRID_LEVELS.length - 1; i >= 0; i--) of getCurrentGridLevel
RECURSIVE scanGridLevels(_, _)
scanGridLevels(zoom, i) ==
  IF i < 1 THEN GRID_LEVELS[1]
  ELSE IF zoom >= GRID_LEVELS[i].zoom THEN GRID_LEVELS[i]
  ELSE scanGridLevels(zoom, i - 1)

getCurrentGridLevel(zoom) == scanGridLevels(zoom, Len(GRID_LEVELS))

abs(n) == IF n < 0 THEN 0 - n ELSE n

\* the condition of updateGridWithLabels; the grid, once built, stays in the
\* scene, so gridRef.current is null exactly when currentGridLevelRef is.
\* Math.abs(last - zoom) / zoom > 0.1 is 10 * |last - zoom| > zoom.
gridNeedsUpdate(cv) ==
  \/ cv.currentGridLevel = NoGridLevel
  \/ 10 * abs(cv.lastZoomLevelForGrid - cv.camera.zoom) > cv.camera.zoom
  \/ getCurrentGridLevel(cv.camera.zoom).interval # cv.currentGridLevel.interval
  \/ cv.lastZoomLevelForGrid = 0

updateGridWithLabels(cv) ==
  IF gridNeedsUpdate(cv)
  THEN [cv EXCEPT !.currentGridLevel = getCurrentGridLevel(cv.camera.zoom),
                  !.lastZoomLevelForGrid = cv.camera.zoom,
                  !.rebuilds = @ + 1]
  ELSE cv

\* camera.top of adjustCameraFrustum: baseViewSize / zoom, for the value of
\* isIsometric that the calling closure holds
adjustCameraFrustum(isometricView, zoom) ==
  ((IF isometricView THEN HalfDiagonal ELSE GridCenter) * 100) \div zoom

\* the handler toggleView itself: save the view left, load the view entered;
\* the frustum is adjusted by the closure of the render before the toggle
toggleView(cv) ==
  LET saved == IF cv.isIsometric
               THEN [cv EXCEPT !.isometricViewState = cv.camera]
               ELSE [cv EXCEPT !.birdsEyeViewState = cv.camera]
      targetState == IF ~cv.isIsometric THEN saved.isometricViewState
                     ELSE saved.birdsEyeViewState
  IN updateGridWithLabels(
       [saved EXCEPT !.isIsometric = ~cv.isIsometric, !.camera = targetState,
                     !.viewHeight = adjustCameraFrustum(cv.isIsometric, targetState.zoom),
                     !.rebuilds = 0])

\* the camera orientation effect, which runs first after isIsometric changed
orientationEffect(cv) ==
  updateGridWithLabels(
    [cv EXCEPT !.viewHeight = adjustCameraFrustum(cv.isIsometric, cv.camera.zoom)])

\* the camera setup effect, which has isIsometric among its dependencies: a
\* new camera at the initial position of the view, and both saved states
\* overwritten with it
cameraSetupEffect(cv) ==
  LET fresh == [position |-> initialPosition(cv.isIsometric), zoom |-> DEFAULT_ZOOM]
  IN updateGridWithLabels(
       [cv EXCEPT !.camera = fresh, !.isometricViewState = fresh,
                  !.birdsEyeViewState = fresh,
                  !.viewHeight = adjustCameraFrustum(cv.isIsometric, DEFAULT_ZOOM)])

\* Math.max(MIN_ZOOM, zoom), the upper limit left out
clampZoomLowerOnly(zoom) ==
  IF zoom < MIN_ZOOM THEN MIN_ZOOM ELSE zoom

\* Math.max(MIN_ZOOM, Math.min(MAX_ZOOM, zoom))
clampZoom(zoom) ==
  IF zoom < MIN_ZOOM THEN MIN_ZOOM ELSE IF zoom > MAX_ZOOM THEN MAX_ZOOM ELSE zoom

\* one run of animate: the accumulated pan moves the camera by moveVector,
\* the accumulated wheel delta scales the zoom by num / den.  The closure was
\* created by the mount effect, so the isIsometric it reads is the initial
\* `true`: the state it updates is always that of the isometric view, and
\* the frustum it sets is that of the isometric view.
animate(cv, moveVector, num, den) ==
  LET moved == Vec(cv.camera.position.x + moveVector.x,
                   cv.camera.position.y + moveVector.y,
                   cv.camera.position.z + moveVector.z)
      newZoom == clampZoom((cv.camera.zoom * num) \div den)
      panned == updateGridWithLabels(
                  [cv EXCEPT !.camera.position = moved,
                             !.isometricViewState.position = moved,
                             !.rebuilds = 0])
      zoomed == updateGridWithLabels(
                  [panned EXCEPT !.camera.zoom = newZoom,
                                 !.viewHeight = adjustCameraFrustum(TRUE, newZoom)])
  IN IF newZoom # cv.camera.zoom
     THEN [zoomed EXCEPT !.isometricViewState.zoom = newZoom]
     ELSE panned

handleRecenter(cv) ==
  LET home == [position |-> initialPosition(cv.isIsometric), zoom |-> DEFAULT_ZOOM]
      moved == updateGridWithLabels(
                 [cv EXCEPT !.camera = home,
                            !.viewHeight = adjustCameraFrustum(cv.isIsometric, DEFAULT_ZOOM),
                            !.rebuilds = 0])
  IN IF cv.isIsometric
     THEN [moved EXCEPT !.isometricViewState = home]
     ELSE [moved EXCEPT !.birdsEyeViewState = home]

\* { x, y } of a screen position or of a screen delta, in pixels
Point(x, y) == [x |-> x, y |-> y]

\* the largest r with r * r <= n, for the zooms up to MAX_ZOOM
isqrt(n) == CHOOSE r \in 0..45 : r * r <= n /\ n < (r + 1) * (r + 1)

\* a / den rounded towards zero
towardZero(a, den) == IF a < 0 THEN 0 - ((0 - a) \div den) ELSE a \div den

\* columns 0 and 1 of camera.matrixWorld after setCameraOrientation, in
\* thousandths: the isometric camera looks along (1250, 1250, -1768) with
\* Z up, the top-down camera looks down the Z axis with Y up
cameraRight(isometricView) ==
  IF isometricView THEN Vec(707, 0 - 707, 0) ELSE Vec(1000, 0, 0)

cameraUp(isometricView) ==
  IF isometricView THEN Vec(500, 500, 707) ELSE Vec(0, 1000, 0)

\* moveVector of animate: the pixels of the drag times unitsPerPixel
\* (viewport height / clientHeight, the same along X as the frustum keeps the
\* aspect of the mount) times zoomScale = 1 / sqrt(zoom), along the camera's
\* right (negated) and up axes
moveVectorOf(cv, delta) ==
  LET perPixel(pixels) == towardZero(pixels * 2 * cv.viewHeight * 10,
                                     MountHeight * isqrt(cv.camera.zoom))
      deltaX == perPixel(delta.x)
      deltaY == perPixel(delta.y)
      right == cameraRight(cv.isIsometric)
      up == cameraUp(cv.isIsometric)
  IN Vec(towardZero(right.x * (0 - deltaX) + up.x * deltaY, 1000),
         towardZero(right.y * (0 - deltaX) + up.y * deltaY, 1000),
         towardZero(right.z * (0 - deltaX) + up.z * deltaY, 1000))

\* Math.pow(0.95, zoomDelta * ZOOM_SENSITIVITY) as a fraction, for a zoomDelta
\* that is a whole number of notches
zoomFactorOf(delta) ==
  LET halvings == abs(delta) \div WheelNotch
  IN IF delta > 0 THEN <<1, 2 ^ halvings>> ELSE <<2 ^ halvings, 1>>

\* the ray of the orthographic camera through a screen position: it starts
\* at the camera position displaced along the camera's right and up axes by
\* the normalised device coordinates (computed as in screenToWorld, in
\* thousandths) times the half extent of the frustum divided by the zoom,
\* and runs along the viewing direction.  A frame never turns the camera, so
\* two equal rays meet the ground plane in the same point and two different
\* rays in different points.
pointerRay(cv, screen) ==
  LET x == (screen.x * 2000) \div MountWidth - 1000
      y == 0 - ((screen.y * 2000) \div MountHeight) + 1000
      viewWidth == (cv.viewHeight * MountWidth) \div MountHeight
  IN [origin |-> cv.camera.position,
      right |-> towardZero(x * viewWidth * 100, 1000 * cv.camera.zoom),
      up |-> towardZero(y * cv.viewHeight * 100, 1000 * cv.camera.zoom)]

\* ------------------------------------------------- CreateObjectModal.tsx
\* the value of an <input>: a sequence of characters
DigitValue(c) ==
  CASE c = "0" -> 0 [] c = "1" -> 1 [] c = "2" -> 2 [] c = "3" -> 3 [] c = "4" -> 4
    [] c = "5" -> 5 [] c = "6" -> 6 [] c = "7" -> 7 [] c = "8" -> 8 [] c = "9" -> 9
IsDigit(c) == c \in {"0", "1", "2", "3", "4", "5", "6", "7", "8", "9"}
\* a number or NaN
Number(n) == [isNaN |-> FALSE, value |-> n]
NaN == [isNaN |-> TRUE, value |-> 0]

\* the digits at the head of chars, read as a decimal number after acc
RECURSIVE leadingDigits(_, _)
leadingDigits(chars, acc) ==
  IF chars # <<>> /\ IsDigit(Head(chars))
  THEN leadingDigits(Tail(chars), 10 * acc + DigitValue(Head(chars)))
  ELSE acc

\* parseInt(value): an optional sign, then the leading digits; NaN without one
parseInt(value) ==
  LET negative == value # <<>> /\ Head(value) = "-"
      digits == IF negative THEN Tail(value) ELSE value
  IN IF digits = <<>> \/ ~IsDigit(Head(digits)) THEN NaN
     ELSE IF negative THEN Number(0 - leadingDigits(digits, 0))
     ELSE Number(leadingDigits(digits, 0))

\* the condition under which handleDimensionChange calls its setter
dimensionAccepted(parsed, maxValue) ==
  ~parsed.isNaN /\ parsed.value > 0 /\ parsed.value <= maxValue

\* name.trim(): the names entered are blank or have no outer blanks
trim(text) == IF text \in {" ", "   "} THEN "" ELSE text

\* ------------------------------------------------------------------ inputs
Names == {"Plan A"}
NewObjects ==
  { [name |-> "Box", dimensions |-> Dim(20, 10, 2), color |-> "#ff0000"],
    [name |-> "Mill", dimensions |-> Dim(4, 4, 8), color |-> "#ff0000"] }
\* pointer positions (pixels) of the mousemove events
ClientXs == {2505, 2525}
ClientYs == {2505}

Entries ==
  { Entry("Mill", Dim(4, 4, 8), "#aaaaaa", TRUE, Pos(0, 0, 0), 0),
    Entry("Box", Dim(20, 10, 2), "", TRUE, Pos(20, 0, 0), 90),
    Entry("Mill", Dim(4, 4, 8), "#aaaaaa", TRUE, Pos(-20, 0, 4998), 45),
    Entry("Crate", NoDimensions, "#00ff00", TRUE, Pos(0, 0, 0), 0),
    Entry("Wall", Dim(2, 1, 1), "#9b9b9b", FALSE, Pos(0, 0, 0), 0) }
EntryLists == UNION { [1..n -> Entries] : n \in 0..MaxEntries }
JsonDocs ==
  { Doc(FALSE, "", FALSE, <<>>), Doc(TRUE, "", TRUE, <<>>), Doc(TRUE, "Imported", FALSE, <<>>) }
    \cup { Doc(TRUE, "Imported", TRUE, es) : es \in EntryLists }

\* store calls made with arguments of the caller's choosing
ObjectUpdates == { [dimensions |-> Dim(8, 8, 8)], [id |-> DefaultMillId] }
PlanUpdates == { [name |-> "Renamed"] }
PlacePositions == { Pos(0, 0, 0) }
PlaceRotations == { 90 }
\* values typed into the fields of the creation form
DimensionInputs ==
  { <<>>, <<"0">>, <<"-", "4">>, <<"1", "0", "1", ".", "5">>,
    <<"5", "0", "0">>, <<"5", "0", "1">> }
NameInputs == { "   " }
ColorInputs == { "#ff0000" }
\* files handed to the import modal: a MIME type, a name and the text read
File(type, name, empty, data) == [type |-> type, name |-> name, empty |-> empty, data |-> data]
Files ==
  { File("text/plain", "notes.txt", FALSE, Doc(FALSE, "", FALSE, <<>>)),
    File("application/json", "empty.json", TRUE, Doc(FALSE, "", FALSE, <<>>)) }
    \cup { File("application/json", "plan.json", FALSE, data) : data \in JsonDocs }
\* what one animation frame applies: a pan, or a zoom by num / den
MoveVectors == { Vec(0 - 100, 0, 0), Vec(0, 100, 0) }
ZoomFactors == { <<1, 2>>, <<2, 1>> }
MousePositions == { Point(500, 250), Point(520, 250) }
WheelDeltas == { WheelNotch, 0 - WheelNotch }

LibraryIds == { objectLibrary[i].id : i \in 1..Len(objectLibrary) }
PlanIds == { floorPlans[i].id : i \in 1..Len(floorPlans) }

\* ------------------------------------------------------------------ state
Init ==
  /\ objectLibrary = InitialLibrary
  /\ floorPlans = <<>>
  /\ activeFloorPlanId = Null
  /\ nextId = 3
  /\ placingObjectId = Null
  /\ position = Pos(0, 0, 0)
  /\ rotation = 0
  /\ isValidPlacement = TRUE
  /\ showCreateModal = FALSE
  /\ formName = "New Object"
  /\ xDimension = InitialDimension
  /\ yDimension = InitialDimension
  /\ zDimension = InitialDimension
  /\ formColor = DefaultColor
  /\ importModalOpen = FALSE
  /\ fileName = ""
  /\ error = ""
  /\ isIsometric = TRUE
  /\ camera = [position |-> initialPosition(TRUE), zoom |-> DEFAULT_ZOOM]
  /\ isometricViewState = [position |-> initialPosition(TRUE), zoom |-> DEFAULT_ZOOM]
  /\ birdsEyeViewState = [position |-> initialPosition(TRUE), zoom |-> DEFAULT_ZOOM]
  /\ viewHeight = adjustCameraFrustum(TRUE, DEFAULT_ZOOM)
  /\ currentGridLevel = getCurrentGridLevel(DEFAULT_ZOOM)
  /\ lastZoomLevelForGrid = DEFAULT_ZOOM
  /\ rebuilds = 1
  /\ isDragging = FALSE
  /\ lastMousePosition = Point(0, 0)
  /\ panDelta = Point(0, 0)
  /\ zoomDelta = 0
  /\ mousePosForZoom = Point(0, 0)
  /\ movedSinceFrame = Point(0, 0)
  /\ panFrames = 0
  /\ last = "init"

SetStore(s) ==
  /\ objectLibrary' = s.objectLibrary
  /\ floorPlans' = s.floorPlans
  /\ activeFloorPlanId' = s.activeFloorPlanId
  /\ nextId' = s.nextId

RECURSIVE PlacedCount(_)
PlacedCount(plans) ==
  IF plans = <<>> THEN 0 ELSE Len(Head(plans).objects) + PlacedCount(Tail(plans))

SizesWithinBounds(s) ==
  /\ Len(s.objectLibrary) <= MaxLib
  /\ Len(s.floorPlans) <= MaxPlans
  /\ PlacedCount(s.floorPlans) <= MaxPlaced

WithinBounds(s) == SizesWithinBounds(s) /\ s.nextId <= MaxId + 1

\* the component unmounts: its state is gone until the next mount
Unmount ==
  /\ placingObjectId' = Null
  /\ position' = Pos(0, 0, 0)
  /\ rotation' = 0
  /\ isValidPlacement' = TRUE

\* --------------------------------------------------- store operations
AddObject ==
  /\ UNCHANGED <<formVars, modalVars, canvasVars>>
  /\ \E o \in NewObjects :
      /\ WithinBounds(addObject(St, o))
      /\ SetStore(addObject(St, o))
      /\ last' = "addObject"
      /\ UNCHANGED placementVars

\* the object effect of ObjectPlacement re-runs when `object` becomes
\* undefined and returns at once: the component state stays as it is
DeleteObject ==
  /\ UNCHANGED <<formVars, modalVars, canvasVars>>
  /\ \E id \in LibraryIds :
      /\ SetStore(deleteObject(St, id))
      /\ last' = "deleteObject"
      /\ UNCHANGED placementVars

AddFloorPlan ==
  /\ UNCHANGED <<formVars, modalVars, canvasVars>>
  /\ \E name \in Names :
      /\ WithinBounds(addFloorPlan(St, name))
      /\ SetStore(addFloorPlan(St, name))
      /\ last' = "addFloorPlan"
      /\ UNCHANGED placementVars

DeleteFloorPlan ==
  /\ UNCHANGED <<formVars, modalVars, canvasVars>>
  /\ \E id \in PlanIds :
      /\ SetStore(deleteFloorPlan(St, id))
      /\ last' = "deleteFloorPlan"
      /\ UNCHANGED placementVars

SetActiveFloorPlan ==
  /\ UNCHANGED <<formVars, modalVars, canvasVars>>
  /\ \E id \in PlanIds :
      /\ SetStore(setActiveFloorPlan(St, id))
      /\ last' = "setActiveFloorPlan"
      /\ UNCHANGED placementVars

ImportFloorPlanFromJSON ==
  /\ UNCHANGED <<formVars, modalVars, canvasVars>>
  /\ \E data \in JsonDocs :
      LET r == importFloorPlanFromJSON(St, data)
      IN /\ SizesWithinBounds(r.s)
         /\ r.s.nextId <= MaxImportId + 1
         /\ SetStore(r.s)
         /\ last' = IF r.threw THEN "importFloorPlanFromJSON.catch"
                    ELSE "importFloorPlanFromJSON"
         /\ UNCHANGED placementVars

\* ------------------------------------------------ placement handlers
\* FactoryDesigner.handleImportObject; ObjectPlacement mounts when no
\* placement was pending, otherwise it stays mounted with another objectId
HandleImportObject ==
  /\ UNCHANGED <<formVars, modalVars, canvasVars>>
  /\ \E objectId \in LibraryIds :
      /\ placingObjectId' = objectId
      /\ IF placingObjectId = Null
         THEN /\ position' = Pos(GridCenter, 0, GridCenter)
              /\ rotation' = 0
              /\ isValidPlacement' = TRUE
         ELSE /\ position' = IF objectId # placingObjectId
                             THEN Pos(GridCenter, 0, GridCenter) ELSE position
              /\ UNCHANGED <<rotation, isValidPlacement>>
      /\ last' = "handleImportObject"
      /\ UNCHANGED <<objectLibrary, floorPlans, activeFloorPlanId, nextId>>

HandleMouseMove ==
  /\ UNCHANGED <<formVars, modalVars, canvasVars>>
  /\ \E clientX \in ClientXs, clientY \in ClientYs :
      LET gridX == snap(clientX)
          gridZ == snap(clientY)
      IN /\ Rendered
         /\ position' = Pos(gridX, 0, gridZ)
         /\ isValidPlacement' = ~checkCollision(gridX, 0, gridZ, object, rotation)
         /\ last' = "handleMouseMove"
         /\ UNCHANGED <<objectLibrary, floorPlans, activeFloorPlanId, nextId,
                        placingObjectId, rotation>>

\* the [object, rotation] effect re-runs after the rotation changes
HandleRotate ==
  /\ UNCHANGED <<formVars, modalVars, canvasVars>>
  /\ Rendered
  /\ rotation' = handleRotate(rotation)
  /\ position' = Pos(GridCenter, 0, GridCenter)
  /\ last' = "handleRotate"
  /\ UNCHANGED <<objectLibrary, floorPlans, activeFloorPlanId, nextId,
                 placingObjectId, isValidPlacement>>

\* faulty variant of HandleCancelPlacement: cancelling stores the pending
\* placement first
HandleCancelPlacementStores ==
  /\ UNCHANGED <<formVars, modalVars, canvasVars>>
  /\ Rendered
  /\ WithinBounds(importObject(St, placingObjectId, position, rotation))
  /\ SetStore(importObject(St, placingObjectId, position, rotation))
  /\ Unmount
  /\ last' = "handleCancelPlacement"

\* FactoryDesigner.handleCancelPlacement, reached from the Cancel button
HandleCancelPlacement ==
  /\ UNCHANGED <<formVars, modalVars, canvasVars>>
  /\ Rendered
  /\ Unmount
  /\ last' = "handleCancelPlacement"
  /\ UNCHANGED <<objectLibrary, floorPlans, activeFloorPlanId, nextId>>

\* FactoryDesigner.handleCompletePlacement(position, rotation)
handleCompletePlacement(s, pos, rot) ==
  IF placingObjectId # Null THEN importObject(s, placingObjectId, pos, rot) ELSE s

\* ObjectPlacement.handleComplete, reached from the Confirm button
HandleComplete ==
  /\ UNCHANGED <<formVars, modalVars, canvasVars>>
  /\ Rendered
  /\ ~ConfirmDisabled
  /\ IF handleCompleteCalls
     THEN /\ WithinBounds(handleCompletePlacement(St, position, rotation))
          /\ SetStore(handleCompletePlacement(St, position, rotation))
          /\ Unmount
          /\ last' = "handleCompletePlacement"
     ELSE /\ last' = "handleComplete"
          /\ UNCHANGED <<objectLibrary, floorPlans, activeFloorPlanId, nextId>>
          /\ UNCHANGED placementVars

\* ------------------------------------- store calls not shown above
otherVars == <<placementVars, formVars, modalVars, canvasVars>>

UpdateObject ==
  \E id \in LibraryIds, updates \in ObjectUpdates :
    /\ SetStore(updateObject(St, id, updates))
    /\ last' = "updateObject"
    /\ UNCHANGED otherVars

DuplicateObject ==
  \E id \in LibraryIds :
    /\ WithinBounds(duplicateObject(St, id))
    /\ SetStore(duplicateObject(St, id))
    /\ last' = "duplicateObject"
    /\ UNCHANGED otherVars

\* LeftPanel.handleNameEdit with a name that is not blank
UpdateFloorPlan ==
  \E id \in PlanIds, updates \in PlanUpdates :
    /\ SetStore(updateFloorPlan(St, id, updates))
    /\ last' = "updateFloorPlan"
    /\ UNCHANGED otherVars

ImportObject ==
  \E objectId \in LibraryIds, pos \in PlacePositions, rot \in PlaceRotations :
    /\ WithinBounds(importObject(St, objectId, pos, rot))
    /\ SetStore(importObject(St, objectId, pos, rot))
    /\ last' = "importObject"
    /\ UNCHANGED otherVars

RemoveObjectFromFloorPlan ==
  \E floorPlanId \in PlanIds :
    \E placedObjectIndex \in 0..(Len(findPlan(floorPlans, floorPlanId).objects) - 1) :
      /\ SetStore(removeObjectFromFloorPlan(St, floorPlanId, placedObjectIndex))
      /\ last' = "removeObjectFromFloorPlan"
      /\ UNCHANGED otherVars

\* LeftPanel.handleExport: the text goes to a download, the store stays
ExportFloorPlan ==
  \E id \in PlanIds :
    /\ exportFloorPlan(St, id).parses
    /\ last' = "exportFloorPlan"
    /\ UNCHANGED <<objectLibrary, floorPlans, activeFloorPlanId, nextId>>
    /\ UNCHANGED otherVars

\* the text exported for a plan handed back to importFloorPlanFromJSON; the
\* plan read back may come on top of MaxPlans plans
ImportExported ==
  \E id \in PlanIds :
    LET r == importFloorPlanFromJSON(St, exportFloorPlan(St, id))
    IN /\ Len(r.s.objectLibrary) <= MaxLib
       /\ Len(r.s.floorPlans) <= MaxPlans + 1
       /\ PlacedCount(r.s.floorPlans) <= MaxPlaced
       /\ r.s.nextId <= MaxImportId + 1
       /\ SetStore(r.s)
       /\ last' = IF r.threw THEN "importExported.catch" ELSE "importExported"
       /\ UNCHANGED otherVars

\* ------------------------------------------------ the creation form
\* the modal mounts with the initial state of its useState calls
FormInitial ==
  /\ formName' = "New Object"
  /\ xDimension' = InitialDimension
  /\ yDimension' = InitialDimension
  /\ zDimension' = InitialDimension
  /\ formColor' = DefaultColor

notForm == <<placementVars, modalVars, canvasVars>>

OpenCreateModal ==
  /\ ~showCreateModal
  /\ showCreateModal' = TRUE
  /\ FormInitial
  /\ last' = "openCreateModal"
  /\ UNCHANGED <<objectLibrary, floorPlans, activeFloorPlanId, nextId>>
  /\ UNCHANGED notForm

\* onClose of the X and Cancel buttons and of the Escape key
CloseCreateModal ==
  /\ showCreateModal
  /\ showCreateModal' = FALSE
  /\ FormInitial
  /\ last' = "closeCreateModal"
  /\ UNCHANGED <<objectLibrary, floorPlans, activeFloorPlanId, nextId>>
  /\ UNCHANGED notForm

HandleNameChange ==
  \E text \in NameInputs :
    /\ showCreateModal
    /\ formName' = text
    /\ last' = "setName"
    /\ UNCHANGED <<showCreateModal, xDimension, yDimension, zDimension, formColor>>
    /\ UNCHANGED <<objectLibrary, floorPlans, activeFloorPlanId, nextId>>
    /\ UNCHANGED notForm

HandleColorChange ==
  \E text \in ColorInputs :
    /\ showCreateModal
    /\ formColor' = text
    /\ last' = "setColor"
    /\ UNCHANGED <<showCreateModal, formName, xDimension, yDimension, zDimension>>
    /\ UNCHANGED <<objectLibrary, floorPlans, activeFloorPlanId, nextId>>
    /\ UNCHANGED notForm

\* the maxValue the Height (Z) input passes: none, so the default applies
zMaxValue == MaxDimension

\* onChange of the three dimension inputs
HandleDimensionChange ==
  \E field \in {"x", "y", "z"}, value \in DimensionInputs :
    LET parsed == parseInt(value)
        maxValue == IF field = "z" THEN zMaxValue ELSE MaxDimension
        accepted == dimensionAccepted(parsed, maxValue)
    IN /\ showCreateModal
       /\ xDimension' = IF accepted /\ field = "x" THEN parsed.value ELSE xDimension
       /\ yDimension' = IF accepted /\ field = "y" THEN parsed.value ELSE yDimension
       /\ zDimension' = IF accepted /\ field = "z" THEN parsed.value ELSE zDimension
       /\ last' = "handleDimensionChange"
       /\ UNCHANGED <<showCreateModal, formName, formColor>>
       /\ UNCHANGED <<objectLibrary, floorPlans, activeFloorPlanId, nextId>>
       /\ UNCHANGED notForm

\* the Create Object button is disabled while the trimmed name is empty
HandleCreateObject ==
  LET created == addObject(St, [name |-> formName,
                                dimensions |-> Dim(xDimension, yDimension, zDimension),
                                color |-> formColor])
  IN /\ showCreateModal
     /\ trim(formName) # ""
     /\ WithinBounds(created)
     /\ SetStore(created)
     /\ showCreateModal' = FALSE
     /\ FormInitial
     /\ last' = "handleCreateObject"
     /\ UNCHANGED notForm

\* -------------------------------------------------- the import modal
notModal == <<placementVars, formVars, canvasVars>>

OpenImportModal ==
  /\ ~importModalOpen
  /\ importModalOpen' = TRUE
  /\ last' = "openImportModal"
  /\ UNCHANGED <<fileName, error>>
  /\ UNCHANGED <<objectLibrary, floorPlans, activeFloorPlanId, nextId>>
  /\ UNCHANGED notModal

\* onClose of the X and Cancel buttons
CloseImportModal ==
  /\ importModalOpen
  /\ importModalOpen' = FALSE
  /\ last' = "closeImportModal"
  /\ UNCHANGED <<fileName, error>>
  /\ UNCHANGED <<objectLibrary, floorPlans, activeFloorPlanId, nextId>>
  /\ UNCHANGED notModal

\* handleFiles and the onload callback of its FileReader
HandleFiles ==
  \E file \in Files :
    LET r == importFloorPlanFromJSON(St, file.data)
    IN /\ importModalOpen
       /\ IF file.type # "application/json"
          THEN /\ error' = "Please upload a JSON file"
               /\ last' = "handleFiles.rejected"
               /\ UNCHANGED <<importModalOpen, fileName>>
               /\ UNCHANGED <<objectLibrary, floorPlans, activeFloorPlanId, nextId>>
          ELSE IF file.empty
          THEN /\ error' = ""
               /\ fileName' = file.name
               /\ last' = "handleFiles.empty"
               /\ UNCHANGED importModalOpen
               /\ UNCHANGED <<objectLibrary, floorPlans, activeFloorPlanId, nextId>>
          ELSE /\ SizesWithinBounds(r.s)
               /\ r.s.nextId <= MaxImportId + 1
               /\ error' = ""
               /\ fileName' = file.name
               /\ SetStore(r.s)
               /\ importModalOpen' = FALSE
               /\ last' = IF r.threw THEN "handleFiles.importFailed" ELSE "handleFiles"
       /\ UNCHANGED notModal

\* ------------------------------------------------------- the canvas
SetCanvas(cv) ==
  /\ isIsometric' = cv.isIsometric
  /\ camera' = cv.camera
  /\ isometricViewState' = cv.isometricViewState
  /\ birdsEyeViewState' = cv.birdsEyeViewState
  /\ viewHeight' = cv.viewHeight
  /\ currentGridLevel' = cv.currentGridLevel
  /\ lastZoomLevelForGrid' = cv.lastZoomLevelForGrid
  /\ rebuilds' = cv.rebuilds

notCanvas == <<placementVars, formVars, modalVars, inputVars>>

\* the click on the view button, and the effects of the render it causes
ToggleView ==
  /\ SetCanvas(cameraSetupEffect(orientationEffect(toggleView(Cv))))
  /\ last' = "toggleView"
  /\ UNCHANGED <<objectLibrary, floorPlans, activeFloorPlanId, nextId>>
  /\ UNCHANGED notCanvas

PanWithinBounds(cv) ==
  /\ cv.camera.position.x >= GridCenter - IsoDist - 100 * MaxPanSteps
  /\ cv.camera.position.y <= GridCenter + 100 * MaxPanSteps

\* an animation frame that applies a drag
AnimatePan ==
  \E moveVector \in MoveVectors :
    /\ PanWithinBounds(animate(Cv, moveVector, 1, 1))
    /\ SetCanvas(animate(Cv, moveVector, 1, 1))
    /\ last' = "animate.pan"
    /\ UNCHANGED <<objectLibrary, floorPlans, activeFloorPlanId, nextId>>
    /\ UNCHANGED notCanvas

\* an animation frame that applies a wheel delta
AnimateZoom ==
  \E factor \in ZoomFactors :
    /\ SetCanvas(animate(Cv, Vec(0, 0, 0), factor[1], factor[2]))
    /\ last' = "animate.zoom"
    /\ UNCHANGED <<objectLibrary, floorPlans, activeFloorPlanId, nextId>>
    /\ UNCHANGED notCanvas

HandleRecenter ==
  /\ SetCanvas(handleRecenter(Cv))
  /\ last' = "handleRecenter"
  /\ UNCHANGED <<objectLibrary, floorPlans, activeFloorPlanId, nextId>>
  /\ UNCHANGED notCanvas

\* ------------------------------------- the pointer input of the canvas
notInput == <<placementVars, formVars, modalVars>>
cameraVars == <<isIsometric, camera, isometricViewState, birdsEyeViewState,
                viewHeight, currentGridLevel, lastZoomLevelForGrid, rebuilds>>

CanvasMouseDown ==
  \E event \in MousePositions :
    /\ isDragging' = TRUE
    /\ lastMousePosition' = event
    /\ panDelta' = Point(0, 0)
    /\ last' = "canvas.mousedown"
    /\ UNCHANGED <<zoomDelta, mousePosForZoom, movedSinceFrame, panFrames>>
    /\ UNCHANGED <<objectLibrary, floorPlans, activeFloorPlanId, nextId>>
    /\ UNCHANGED <<cameraVars, notInput>>

CanvasMouseMove ==
  \E event \in MousePositions :
    LET moved == Point(event.x - lastMousePosition.x, event.y - lastMousePosition.y)
        taken == Point(movedSinceFrame.x + moved.x, movedSinceFrame.y + moved.y)
    IN /\ IF ~isDragging
          THEN UNCHANGED <<lastMousePosition, panDelta, movedSinceFrame>>
          ELSE /\ abs(taken.x) <= MaxPanPixels
               /\ abs(taken.y) <= MaxPanPixels
               /\ panDelta' = Point(panDelta.x + moved.x, panDelta.y + moved.y)
               /\ lastMousePosition' = event
               /\ movedSinceFrame' = taken
       /\ last' = "canvas.mousemove"
       /\ UNCHANGED <<isDragging, zoomDelta, mousePosForZoom, panFrames>>
       /\ UNCHANGED <<objectLibrary, floorPlans, activeFloorPlanId, nextId>>
       /\ UNCHANGED <<cameraVars, notInput>>

CanvasMouseUpOrLeave ==
  /\ isDragging' = FALSE
  /\ last' = "canvas.mouseup"
  /\ UNCHANGED <<lastMousePosition, panDelta, zoomDelta, mousePosForZoom, movedSinceFrame,
                 panFrames>>
  /\ UNCHANGED <<objectLibrary, floorPlans, activeFloorPlanId, nextId>>
  /\ UNCHANGED <<cameraVars, notInput>>

CanvasWheel ==
  \E event \in MousePositions, deltaY \in WheelDeltas :
    /\ abs(zoomDelta + deltaY) <= MaxNotches * WheelNotch
    /\ zoomDelta' = zoomDelta + deltaY
    /\ mousePosForZoom' = event
    /\ last' = "canvas.wheel"
    /\ UNCHANGED <<isDragging, lastMousePosition, panDelta, movedSinceFrame, panFrames>>
    /\ UNCHANGED <<objectLibrary, floorPlans, activeFloorPlanId, nextId>>
    /\ UNCHANGED <<cameraVars, notInput>>

NearHome(cv) ==
  LET home == initialPosition(cv.isIsometric)
  IN /\ abs(cv.camera.position.x - home.x) <= MaxPanDistance
     /\ abs(cv.camera.position.y - home.y) <= MaxPanDistance
     /\ DEFAULT_ZOOM <= MaxZoomRatio * cv.camera.zoom
     /\ cv.camera.zoom <= MaxZoomRatio * DEFAULT_ZOOM

\* one animation frame: the accumulated deltas are applied, then reset, then
\* the scene is rendered
Animate ==
  LET factor == IF zoomDelta # 0 THEN zoomFactorOf(zoomDelta) ELSE <<1, 1>>
      frame == animate(Cv, moveVectorOf(Cv, panDelta), factor[1], factor[2])
  IN /\ NearHome(frame)
     /\ panFrames' = IF panDelta # Point(0, 0) THEN panFrames + 1 ELSE panFrames
     /\ panFrames' <= MaxPanSteps
     /\ SetCanvas(frame)
     /\ panDelta' = Point(0, 0)
     /\ zoomDelta' = 0
     /\ movedSinceFrame' = Point(0, 0)
     /\ last' = "animate"
     /\ UNCHANGED <<isDragging, lastMousePosition, mousePosForZoom>>
     /\ UNCHANGED <<objectLibrary, floorPlans, activeFloorPlanId, nextId>>
     /\ UNCHANGED notInput

\* interactive use: the library, the floor plan list and the placement overlay
Next ==
  \/ AddObject
  \/ DeleteObject
  \/ AddFloorPlan
  \/ DeleteFloorPlan
  \/ SetActiveFloorPlan
  \/ HandleImportObject
  \/ HandleMouseMove
  \/ HandleRotate
  \/ HandleCancelPlacement
  \/ HandleComplete

Spec == Init /\ [][Next]_vars

\* the store driven through its floor plan operations and the JSON import
NextImport ==
  \/ AddObject
  \/ DeleteObject
  \/ AddFloorPlan
  \/ DeleteFloorPlan
  \/ SetActiveFloorPlan
  \/ ImportFloorPlanFromJSON

SpecImport == Init /\ [][NextImport]_vars

\* the object library driven through all of its operations
NextLibrary ==
  \/ AddObject
  \/ UpdateObject
  \/ DeleteObject
  \/ DuplicateObject

SpecLibrary == Init /\ [][NextLibrary]_vars

\* the store driven through its floor plan operations, with placements made
\* by store calls and an exported plan read back
NextStore ==
  \/ AddObject
  \/ DeleteObject
  \/ AddFloorPlan
  \/ UpdateFloorPlan
  \/ DeleteFloorPlan
  \/ SetActiveFloorPlan
  \/ ImportObject
  \/ RemoveObjectFromFloorPlan
  \/ ExportFloorPlan
  \/ ImportExported

SpecStore == Init /\ [][NextStore]_vars

\* the creation form of the object library
NextForm ==
  \/ OpenCreateModal
  \/ CloseCreateModal
  \/ HandleNameChange
  \/ HandleColorChange
  \/ HandleDimensionChange
  \/ HandleCreateObject

SpecForm == Init /\ [][NextForm]_vars

\* the import modal
NextModal ==
  \/ OpenImportModal
  \/ CloseImportModal
  \/ HandleFiles

SpecModal == Init /\ [][NextModal]_vars

\* the canvas: its view button, its recenter button and its animation frames
NextCanvas ==
  \/ ToggleView
  \/ AnimatePan
  \/ AnimateZoom
  \/ HandleRecenter

SpecCanvas == Init /\ [][NextCanvas]_vars

\* the canvas driven by its mouse and wheel listeners and its frames
NextInput ==
  \/ CanvasMouseDown
  \/ CanvasMouseMove
  \/ CanvasMouseUpOrLeave
  \/ CanvasWheel
  \/ Animate
  \/ ToggleView

SpecInput == Init /\ [][NextInput]_vars

\* ------------------------------------------------------------ properties
Rotations == {0, 90, 180, 270}

PlacedOf(plan) == { plan.objects[i] : i \in 1..Len(plan.objects) }

\* the footprint of the object under the pointer
CandidateFootprint == Footprint(object, position, rotation)

\* C1: in every floorplan the footprints of any two distinct PlacedObjects
\* share no area.
C1_NoTwoFootprintsOverlap ==
  \A p \in 1..Len(floorPlans) :
    \A i, j \in 1..Len(floorPlans[p].objects) :
      (i < j /\ Resolved(objectLibrary, floorPlans[p].objects[i])
             /\ Resolved(objectLibrary, floorPlans[p].objects[j]))
        => ~SharesArea(PlacedFootprint(objectLibrary, floorPlans[p].objects[i]),
                       PlacedFootprint(objectLibrary, floorPlans[p].objects[j]))

\* C2: once the validity check has run for the pointer position, a candidate
\* footprint that shares area with a footprint placed in the active floorplan
\* is reported invalid.
C2_OverlapIsInvalid ==
  (/\ last = "handleMouseMove"
   /\ Rendered
   /\ \E b \in PlacedOf(activeFloorPlan) :
        /\ Resolved(objectLibrary, b)
        /\ SharesArea(CandidateFootprint, PlacedFootprint(objectLibrary, b)))
    => ~isValidPlacement

\* C3: once the validity check has run for the pointer position, a candidate
\* footprint that shares no area with the only footprint placed in the active
\* floorplan (disjoint, or touching along an edge or at a corner) is reported
\* valid.
C3_NoSharedAreaIsValid ==
  (/\ last = "handleMouseMove"
   /\ Rendered
   /\ Len(activeFloorPlan.objects) = 1
   /\ Resolved(objectLibrary, activeFloorPlan.objects[1])
   /\ ~SharesArea(CandidateFootprint,
                  PlacedFootprint(objectLibrary, activeFloorPlan.objects[1])))
    => isValidPlacement

\* C3 witness: the check ran for a candidate that touches the placed
\* footprint along an edge without sharing area with it
C3_TouchingChecked ==
  /\ last = "handleMouseMove"
  /\ Rendered
  /\ Len(activeFloorPlan.objects) = 1
  /\ Resolved(objectLibrary, activeFloorPlan.objects[1])
  /\ ~SharesArea(CandidateFootprint,
                 PlacedFootprint(objectLibrary, activeFloorPlan.objects[1]))
  /\ Touches(CandidateFootprint,
             PlacedFootprint(objectLibrary, activeFloorPlan.objects[1]))
  /\ isValidPlacement

\* C4: every PlacedObject of every floorplan has integer grid coordinates and
\* a footprint inside the 5000 x 5000 grid.
C4_PlacedInsideGrid ==
  \A p \in 1..Len(floorPlans) :
    \A b \in PlacedOf(floorPlans[p]) :
      /\ b.position.x \in Int /\ b.position.z \in Int
      /\ 0 <= b.position.x /\ 0 <= b.position.z
      /\ b.position.x <= GridSize /\ b.position.z <= GridSize
      /\ Resolved(objectLibrary, b) =>
           /\ PlacedFootprint(objectLibrary, b).x1 <= GridSize
           /\ PlacedFootprint(objectLibrary, b).z1 <= GridSize

\* C5: handleComplete hands the placement over (and so changes the store or
\* ends the placement mode) only if isValidPlacement is true and the object
\* being placed exists in the library; otherwise confirming changes nothing.
C5_ConfirmOnlyWhenValid ==
  [][ (last' \in {"handleComplete", "handleCompletePlacement"}
         /\ <<objectLibrary, floorPlans, activeFloorPlanId, placingObjectId>>'
              # <<objectLibrary, floorPlans, activeFloorPlanId, placingObjectId>>)
        => (isValidPlacement /\ findObject(objectLibrary, placingObjectId).id # Null) ]_vars

\* C5 witness: a confirmed placement has reached a floorplan
C5_Confirmed ==
  /\ last = "handleCompletePlacement"
  /\ activeFloorPlan.objects # <<>>

\* the step appends exactly one PlacedObject, the pending one, to plan p
AppendsPendingTo(p) ==
  /\ p \in 1..Len(floorPlans)
  /\ Len(floorPlans') = Len(floorPlans)
  /\ floorPlans'[p] = [floorPlans[p] EXCEPT !.objects =
        Append(@, [objectId |-> placingObjectId, position |-> position,
                   rotation |-> rotation])]
  /\ \A q \in 1..Len(floorPlans) : q # p => floorPlans'[q] = floorPlans[q]

C7_CancelLeavesStore ==
  [][ last' = "handleCancelPlacement"
        => (placingObjectId' = Null
              /\ UNCHANGED <<objectLibrary, floorPlans, activeFloorPlanId>>) ]_vars

\* C7 witness: a placement was cancelled while a floorplan was active
C7_Cancelled ==
  /\ last = "handleCancelPlacement"
  /\ activeFloorPlanId # Null
  /\ placingObjectId = Null

\* C8: the rotation of every PlacedObject stored in any floorplan is one of
\* 0, 90, 180, 270.
C8_StoredRotationsAreQuarterTurns ==
  \A p \in 1..Len(floorPlans) :
    \A b \in PlacedOf(floorPlans[p]) : b.rotation \in Rotations

\* C9: the rotation of the overlay is one of 0, 90, 180, 270; one press and
\* three further presses of handleRotate give the rotation back, and with it
\* the effective footprint, whose extents swap at every quarter turn (x is
\* the width at 0 and 180, y at 90 and 270).
C9_RotationIsCyclic ==
  LET r1 == handleRotate(rotation)
      r4 == handleRotate(handleRotate(handleRotate(r1)))
  IN /\ rotation \in Rotations
     /\ r4 = rotation
     /\ Rendered =>
          /\ Footprint(object, position, r4) = CandidateFootprint
          /\ effectiveWidth(object, r1) = effectiveDepth(object, rotation)
          /\ effectiveDepth(object, r1) = effectiveWidth(object, rotation)
          /\ effectiveWidth(object, rotation)
               = IF rotation \in {90, 270} THEN object.dimensions.y
                                           ELSE object.dimensions.x

\* C9 witness: handleRotate has wrapped around from 270 to 0 for an object
\* whose two ground dimensions differ
C9_WrappedAround ==
  /\ last = "handleRotate"
  /\ rotation = 0
  /\ Rendered
  /\ object.dimensions.x # object.dimensions.y

\* C10: activeFloorPlanId is null or the id of exactly one floorplan of
\* floorPlans.
C10_ActiveIsNullOrListed ==
  \/ activeFloorPlanId = Null
  \/ Cardinality({ i \in 1..Len(floorPlans) : floorPlans[i].id = activeFloorPlanId }) = 1

\* C10 witness: a plan was deleted and a remaining plan is the active one
C10_ActiveAfterDelete ==
  /\ last = "deleteFloorPlan"
  /\ Len(floorPlans) >= 1
  /\ activeFloorPlanId = floorPlans[1].id

\* the plans of a list other than the plan with the given id, in list order
PlansWithout(plans, id) ==
  LET Other(plan) == plan.id # id
  IN SelectSeq(plans, Other)

\* C11: deleteFloorPlan(id) removes exactly the plan with that id; if it was
\* the active plan, the first remaining plan in list order becomes active, or
\* activeFloorPlanId becomes null when no plan remains; if it was not the
\* active plan, activeFloorPlanId is unchanged.
C11_DeleteFloorPlanContract ==
  [][ last' = "deleteFloorPlan"
        => \E id \in PlanIds :
             /\ floorPlans' = PlansWithout(floorPlans, id)
             /\ Len(floorPlans') = Len(floorPlans) - 1
             /\ activeFloorPlanId' =
                  IF activeFloorPlanId = id
                  THEN (IF floorPlans' # <<>> THEN floorPlans'[1].id ELSE Null)
                  ELSE activeFloorPlanId
             /\ UNCHANGED objectLibrary ]_vars

\* C11 witness: one of three plans was deleted and the first of the two
\* remaining plans, which is not the plan added last, is the active one
C11_FirstOfTwoRemainingActive ==
  /\ last = "deleteFloorPlan"
  /\ Len(floorPlans) = 2
  /\ nextId > floorPlans[2].id + 1
  /\ activeFloorPlanId = floorPlans[1].id

\* the library without the entries with the given id, in list order
LibraryWithout(lib, id) ==
  LET Other(obj) == obj.id # id
  IN SelectSeq(lib, Other)

\* a deleteObject step removes one library entry and nothing else
DeleteObjectRemovesEntryOnly ==
  last' = "deleteObject"
    => /\ \E id \in LibraryIds : objectLibrary' = LibraryWithout(objectLibrary, id)
       /\ UNCHANGED <<floorPlans, activeFloorPlanId>>

\* the text exported for a plan holds one entry for each PlacedObject, orphaned
\* or not, with its position and rotation
ExportKeepsEveryPlacement ==
  \A p \in 1..Len(floorPlans) :
    LET data == exportFloorPlan(St, floorPlans[p].id)
    IN /\ data.parses
       /\ Len(data.objects) = Len(floorPlans[p].objects)
       /\ \A i \in 1..Len(data.objects) :
            /\ data.objects[i].position = floorPlans[p].objects[i].position
            /\ data.objects[i].rotation = floorPlans[p].objects[i].rotation

\* a further placement on the active plan is appended behind its placements
PlacementAppends ==
  (last' = "importObject" /\ activeFloorPlanId # Null)
    => \E p \in 1..Len(floorPlans) :
         /\ floorPlans[p].id = activeFloorPlanId
         /\ Len(floorPlans'[p].objects) = Len(floorPlans[p].objects) + 1
         /\ SubSeq(floorPlans'[p].objects, 1, Len(floorPlans[p].objects))
              = floorPlans[p].objects

\* reading back the text exported for a plan does not end in the catch block
\* while the library has an entry, with dimensions, for every other placement
ReadingBackDoesNotFail ==
  (\A i \in 1..Len(objectLibrary) : objectLibrary[i].dimensions # NoDimensions)
    => last' # "importExported.catch"

\* C12: deleteObject(id) removes only the library entry: every floorplan's
\* objects list is unchanged, so PlacedObjects that reference the deleted id
\* remain (orphaned), and later operations on such a floorplan (export,
\* further placement, import of what was exported) tolerate the orphaned
\* reference without failing.
C12_OrphansAreTolerated ==
  [][ /\ DeleteObjectRemovesEntryOnly
      /\ ExportKeepsEveryPlacement
      /\ PlacementAppends
      /\ ReadingBackDoesNotFail ]_vars

\* C13: an ObjectDefinition is immutable after creation: an object id that is
\* in objectLibrary before and after a step of the store has the same
\* dimensions and color in both states (and so in any two states of a run).
C13_LibraryEntriesNeverChange ==
  [][ \A i \in 1..Len(objectLibrary), j \in 1..Len(objectLibrary') :
        objectLibrary[i].id = objectLibrary'[j].id
          => /\ objectLibrary'[j].dimensions = objectLibrary[i].dimensions
             /\ objectLibrary'[j].color = objectLibrary[i].color ]_vars

\* dimensions the specification allows: positive integers, x and y at most
\* 500 and z at most 100
DimensionsInRange(d) ==
  /\ d.x \in 1..MaxDimension
  /\ d.y \in 1..MaxDimension
  /\ d.z \in 1..MaxHeight

\* C14: every object created through the creation form has integer
\* dimensions with 1 <= x <= 500, 1 <= y <= 500 and 1 <= z <= 100: whatever
\* is typed into the dimension fields, handleDimensionChange never stores a
\* value outside these ranges and handleCreateObject never adds an object
\* violating them.
C14_FormDimensionsInRange ==
  /\ DimensionsInRange(Dim(xDimension, yDimension, zDimension))
  /\ \A i \in 1..Len(objectLibrary) :
       objectLibrary[i].id \notin {DefaultMillId, DefaultWallId}
         => DimensionsInRange(objectLibrary[i].dimensions)

\* C15: a malformed import does not mutate any store: whenever
\* importFloorPlanFromJSON ends in its catch block (the text does not parse,
\* has no name, has an objects field that is no list, or holds an entry that
\* cannot be processed), objectLibrary, floorPlans and activeFloorPlanId are
\* exactly as before the call.
C15_FailedImportLeavesStore ==
  [][ last' = "importFloorPlanFromJSON.catch"
        => UNCHANGED <<objectLibrary, floorPlans, activeFloorPlanId>> ]_vars

\* C16: when an import fails, the import modal stays open with an inline
\* error message, rather than closing as after a successful import.
C16_FailedImportShowsError ==
  [][ last' = "handleFiles.importFailed"
        => (importModalOpen' /\ error' # "") ]_vars

\* the objects of the active plan of a store
ActiveObjects(s) == findPlan(s.floorPlans, s.activeFloorPlanId).objects

\* what the specification asks of one processed entry: reuse of a library
\* entry with the same name and dimensions, or else one new entry, and the
\* placement of the entry referencing the one or the other
EntryReusedOrRegistered(before, obj, after) ==
  LET lib == before.objectLibrary
      same == { i \in 1..Len(lib) :
                  lib[i].name = obj.name /\ lib[i].dimensions = obj.dimensions }
      placedIds == IF same # {} THEN { lib[i].id : i \in same }
                   ELSE { after.objectLibrary[Len(after.objectLibrary)].id }
  IN /\ IF same # {}
        THEN after.objectLibrary = lib
        ELSE /\ Len(after.objectLibrary) = Len(lib) + 1
             /\ SubSeq(after.objectLibrary, 1, Len(lib)) = lib
             /\ after.objectLibrary[Len(lib) + 1].name = obj.name
             /\ after.objectLibrary[Len(lib) + 1].dimensions = obj.dimensions
             /\ after.objectLibrary[Len(lib) + 1].id \notin { lib[i].id : i \in 1..Len(lib) }
     /\ IF obj.hasPosition
        THEN \E id \in placedIds :
               ActiveObjects(after) =
                 Append(ActiveObjects(before),
                        [objectId |-> id, position |-> obj.position,
                         rotation |-> obj.rotation])
        ELSE ActiveObjects(after) = ActiveObjects(before)

C18_ImportSkipsCollidingEntries ==
  [][ last' = "importFloorPlanFromJSON"
        => LET built == floorPlans'[Len(floorPlans')].objects
           IN \A i, j \in 1..Len(built) :
                (i < j /\ Resolved(objectLibrary', built[i])
                       /\ Resolved(objectLibrary', built[j]))
                  => ~SharesArea(PlacedFootprint(objectLibrary', built[i]),
                                 PlacedFootprint(objectLibrary', built[j])) ]_vars

\* plan G of store t repeats plan F of store s: the same name, and the
\* PlacedObjects one to one and in order, with equal position and rotation
\* and with referenced objects of equal dimensions and color
SamePlacements(s, F, t, G) ==
  /\ G.name = F.name
  /\ Len(G.objects) = Len(F.objects)
  /\ \A i \in 1..Len(F.objects) :
       /\ G.objects[i].position = F.objects[i].position
       /\ G.objects[i].rotation = F.objects[i].rotation
       /\ findObject(t.objectLibrary, G.objects[i].objectId).dimensions
            = findObject(s.objectLibrary, F.objects[i].objectId).dimensions
       /\ findObject(t.objectLibrary, G.objects[i].objectId).color
            = findObject(s.objectLibrary, F.objects[i].objectId).color

\* C19: export followed by import round-trips: reading back the text
\* exported for a floorplan F creates a floorplan with the same name whose
\* PlacedObjects correspond one to one, in order, to those of F, with equal
\* position, rotation and referenced object dimensions and color.
C19_ExportImportRoundTrips ==
  [][ last' \in {"importExported", "importExported.catch"}
        => /\ Len(floorPlans') = Len(floorPlans) + 1
           /\ \E p \in 1..Len(floorPlans) :
                SamePlacements(St, floorPlans[p],
                               [objectLibrary |-> objectLibrary'], floorPlans'[Len(floorPlans')]) ]_vars

\* C20: toggling the view mode twice, with the effects triggered by each
\* isIsometric change run in between and no other input, restores exactly
\* the camera position and zoom held before the first toggle.
C20_DoubleToggleRestores ==
  LET once == cameraSetupEffect(orientationEffect(toggleView(Cv)))
      twice == cameraSetupEffect(orientationEffect(toggleView(once)))
  IN /\ twice.isIsometric = isIsometric
     /\ twice.camera.position = camera.position
     /\ twice.camera.zoom = camera.zoom

\* C21: the two saved view states are independent: a frame that pans or zooms
\* while one view mode is active never changes the saved view state of the
\* other mode.
C21_OtherViewStateUntouched ==
  [][ last' \in {"animate.pan", "animate.zoom"}
        => IF isIsometric
           THEN birdsEyeViewState' = birdsEyeViewState
           ELSE isometricViewState' = isometricViewState ]_vars

\* C22: in every reachable state the zoom of the camera and the zoom saved
\* for each of the two view modes lie within MIN_ZOOM .. MAX_ZOOM.
C22_ZoomWithinLimits ==
  \A zoom \in {camera.zoom, isometricViewState.zoom, birdsEyeViewState.zoom} :
    MIN_ZOOM <= zoom /\ zoom <= MAX_ZOOM

\* a wheel frame has brought the camera to the upper limit, a value that the
\* zoom factors reach from DEFAULT_ZOOM only through the clamp
C22_ClampedAtMaximum ==
  /\ last = "animate.zoom"
  /\ camera.zoom = MAX_ZOOM
  /\ isometricViewState.zoom = MAX_ZOOM

\* zooms at, just below and just above every threshold, and the two limits
ZoomSamples ==
  {MIN_ZOOM, MAX_ZOOM} \cup
  { GRID_LEVELS[i].zoom + d : i \in 1..Len(GRID_LEVELS), d \in {0 - 1, 0, 1} }

Eligible(zoom) == { i \in 1..Len(GRID_LEVELS) : GRID_LEVELS[i].zoom <= zoom }

\* C24: the grid level selected for the zoom of the camera is the entry of
\* GRID_LEVELS with the smallest interval among those whose threshold is at
\* most the zoom (the coarsest entry when there is none), and the selection
\* is monotonic: a smaller zoom never selects a smaller interval, a larger
\* zoom never a larger one.
C24_FinestEligibleLevel ==
  /\ currentGridLevel = getCurrentGridLevel(camera.zoom)
  /\ IF Eligible(camera.zoom) = {}
     THEN \A i \in 1..Len(GRID_LEVELS) :
            currentGridLevel.interval >= GRID_LEVELS[i].interval
     ELSE \E i \in Eligible(camera.zoom) :
            /\ currentGridLevel = GRID_LEVELS[i]
            /\ \A j \in Eligible(camera.zoom) :
                 GRID_LEVELS[i].interval <= GRID_LEVELS[j].interval
  /\ \A z \in ZoomSamples :
       /\ z < camera.zoom
            => currentGridLevel.interval <= getCurrentGridLevel(z).interval
       /\ z > camera.zoom
            => currentGridLevel.interval >= getCurrentGridLevel(z).interval

\* a wheel frame has left the zoom between the fifth and the sixth
\* threshold, where five levels are eligible, and the grid has interval 50
C24_FifthLevelSelected ==
  /\ last = "animate.zoom"
  /\ GRID_LEVELS[5].zoom <= camera.zoom
  /\ camera.zoom < GRID_LEVELS[6].zoom
  /\ currentGridLevel.interval = 50

\* C25: once a grid exists, a frame rebuilds the grid lines and labels only
\* when the interval selected for the zoom differs from the interval of the
\* grid built last; a zoom change within one grid level causes no rebuild.
C25_RebuildOnlyOnIntervalChange ==
  [][ /\ last' \in {"animate.pan", "animate.zoom"}
      /\ currentGridLevel # NoGridLevel
      /\ rebuilds' > 0
      => getCurrentGridLevel(camera'.zoom).interval # currentGridLevel.interval ]_vars

\* C23: zoom is anchored at the pointer: when a frame applies a wheel delta
\* (and no drag), the ground point under the pointer position of the wheel
\* event is the same before and after the frame.
C23_ZoomAnchoredAtPointer ==
  [][ /\ last' = "animate"
      /\ zoomDelta # 0
      /\ panDelta = Point(0, 0)
      => pointerRay(Cv', mousePosForZoom) = pointerRay(Cv, mousePosForZoom) ]_vars

\* C26: in every reachable state the ids of objectLibrary are pairwise
\* distinct and the ids of floorPlans are pairwise distinct.
C26_IdsPairwiseDistinct ==
  /\ \A i, j \in 1..Len(objectLibrary) :
       i # j => objectLibrary[i].id # objectLibrary[j].id
  /\ \A i, j \in 1..Len(floorPlans) :
       i # j => floorPlans[i].id # floorPlans[j].id

DefaultViewState(saved) ==
  /\ saved.zoom = DEFAULT_ZOOM
  /\ saved.position \in {initialPosition(TRUE), initialPosition(FALSE)}

\* C27: handleRecenter resets both view states: after it the saved view
\* state of the isometric mode and that of the birds-eye mode are both at a
\* default position with zoom DEFAULT_ZOOM, and the camera has zoom
\* DEFAULT_ZOOM and the default position of the current mode.
C27_RecenterResetsBothViewStates ==
  [][ last' = "handleRecenter"
        => /\ camera' = [position |-> initialPosition(isIsometric'),
                         zoom |-> DEFAULT_ZOOM]
           /\ DefaultViewState(isometricViewState')
           /\ DefaultViewState(birdsEyeViewState') ]_vars

\* at the render of a frame both accumulated deltas are zero
RenderSeesNoDelta ==
  [][ last' = "animate" => panDelta' = Point(0, 0) /\ zoomDelta' = 0 ]_vars

\* a frame applies the whole drag movement taken in since the frame before
FrameAppliesAllMovement ==
  [][ last' = "animate" => panDelta = movedSinceFrame ]_vars

\* only a frame moves the camera, and a mouse movement outside a drag adds
\* nothing to the pan delta that the next frame applies
NoMovementOutsideDrag ==
  [][ /\ last' # "animate" /\ last' # "toggleView" => camera' = camera
      /\ last' = "canvas.mousemove" /\ ~isDragging => panDelta' = panDelta ]_vars

\* C28: in each animation frame the accumulated pan delta and wheel delta
\* are applied to the camera before the render and then reset to zero, so
\* that at every render both are zero, every input delta is applied exactly
\* once, and mouse movement outside a drag never moves the camera.
C28_DeltasAppliedExactlyOnce ==
  RenderSeesNoDelta /\ FrameAppliesAllMovement /\ NoMovementOutsideDrag

\* the entries of a file that carry a position
Positioned(entry) == entry.hasPosition

C30_PlacementCanBeEnded ==
  placingObjectId # Null
    => /\ Rendered
       /\ isValidPlacement => ~ConfirmDisabled
====
